---- MODULE Spec2Model ----
(***************************************************************************)
(* faultless: run a function in a forked child and carry its outcome back  *)
(* over shared memory ("buffer"), a socket pair ("socket") or not at all   *)
(* ("none").  The model follows src/faultless/__init__.py statement by     *)
(* statement: one parent position per statement group of a wrapper, one    *)
(* child position per statement of its `if pid == 0:` block.               *)
(***************************************************************************)
EXTENDS Integers, Sequences, FiniteSets, TLC

VARIABLES
    pc,         \* pc[t]: position of parent thread t inside wrapper()
    method,     \* method[t]: "buffer" | "socket" | "none"
    size,       \* size[t]: return_buffer of the decorated function
    work,       \* work[t]: what func(*args, **kwargs) does in the child
    mem,        \* mem[t]: mem.buf, the bytes of the shared region
    memState,   \* memState[t]: "none" | "alloc" | "unlinked"
    sock,       \* sock[t]: bytes queued in the socket pair, child -> parent
    sockState,  \* sockState[t]: "none" | "open"
    res,        \* res[t]: the parent's bytearray `res` (socket variant)
    cpc,        \* cpc[t]: position of the child forked by thread t
    sent,       \* sent[t]: payload bytes the child's send has queued so far
    status,     \* status[t]: raw wait status of the child forked by t
    code,       \* code[t]: the raw status os.wait() gave to thread t
    waited,     \* waited[t]: whose child thread t's os.wait() reaped (0: none)
    outcome,    \* outcome[t]: what the call returned or raised
    gcFrozen,   \* gc: TRUE between gc.freeze() and gc.unfreeze()
    gcBefore,   \* gcBefore[t]: gcFrozen when thread t entered wrapper()
    regions     \* number of named shared regions that exist

vars == <<pc, method, size, work, mem, memState, sock, sockState, res, cpc,
          sent, status, code, waited, outcome, gcFrozen, gcBefore, regions>>

----------------------------------------------------------------------------
(* Bounds of the model *)

\* largest return_buffer tried
MaxSize == 256
\* largest filler of an encoded object: encoded outcomes reach MaxPad + 4 bytes
MaxPad == 253
\* number of distinct objects a function may return or raise
MaxObj == 2
\* bytes the socket pair queues before a blocking send stops
SockCap == 6
\* shared regions that may exist at once
MaxRegions == 2

----------------------------------------------------------------------------
(* Program and platform constants *)

\* faultless(return_buffer: int = 255)
DefaultReturnBuffer == 255
\* signal.SIGSEGV
SIGSEGV == 11
\* signal.SIGKILL, a signal sent from outside the child
SIGKILL == 9
\* parent.recv(4096)
RecvChunk == 4096
\* first byte of every pickle (protocol marker)
PROTO == 128
\* last byte of every pickle (STOP opcode)
STOP == 46
\* pickle opcodes of the booleans of the (err, obj) pair
NEWTRUE == 136
NEWFALSE == 137
\* a byte of an object's pickled body
FILL == 97

Threads == {1, 2}
Methods == {"buffer", "socket", "none"}
ObjIds == 1..MaxObj

Min(a, b) == IF a < b THEN a ELSE b

----------------------------------------------------------------------------
(* Bytes: int.to_bytes, int.from_bytes, int.bit_length, slices *)

RECURSIVE BitLength(_)
BitLength(n) == IF n = 0 THEN 0 ELSE 1 + BitLength(n \div 2)

\* size_length = math.ceil(size.bit_length() / 8)
SizeLength(sz) == (BitLength(sz) + 7) \div 8

RECURSIVE Pow256(_)
Pow256(w) == IF w = 0 THEN 1 ELSE 256 * Pow256(w - 1)

\* n.to_bytes(w, "little") raises OverflowError when n does not fit w bytes
FitsBytes(n, w) == n < Pow256(w)
\* to_bytes with the byte order reversed ("big")
ToBytesBE(n, w) == [i \in 1..w |-> (n \div Pow256(w - i)) % 256]
ToBytesLE(n, w) == [i \in 1..w |-> (n \div Pow256(i - 1)) % 256]

RECURSIVE FromBytesLE(_)
FromBytesLE(bs) ==
    IF Len(bs) = 0 THEN 0 ELSE Head(bs) + 256 * FromBytesLE(Tail(bs))

Zeros(n) == [i \in 1..n |-> 0]

\* Python's buf[a:b] for 0 <= a, 0 <= b: both ends are clamped to the length
Slice(buf, a, b) == SubSeq(buf, Min(a, Len(buf)) + 1, Min(b, Len(buf)))

\* buf[a:a+len(data)] = data, for a slice that holds exactly len(data) bytes
Store(buf, a, data) ==
    [i \in 1..Len(buf) |->
        IF i > a /\ i <= a + Len(data) THEN data[i - a] ELSE buf[i]]

----------------------------------------------------------------------------
(* Objects and their encoding (pickle.dumps / pickle.loads)                *)
(* An object is an identity, the size of its pickled body, and whether     *)
(* pickle can encode it at all.                                            *)

NoObj == [id |-> 0, pad |-> 0, ok |-> TRUE]
\* the error pickle.dumps raises for an object it cannot encode
PicklingError == [id |-> MaxObj + 1, pad |-> 0, ok |-> TRUE]

Body(o) == <<o.id>> \o [i \in 1..o.pad |-> FILL]

\* pickle.dumps(obj)
DumpsObj(o) == <<PROTO>> \o Body(o) \o <<STOP>>
\* pickle.dumps((err, obj))
DumpsRes(err, o) ==
    <<PROTO, IF err THEN NEWTRUE ELSE NEWFALSE>> \o Body(o) \o <<STOP>>

\* number of FILL bytes of bs from index i on
CountFill(bs, i) ==
    LET end == CHOOSE j \in i..(Len(bs) + 1) :
                   /\ j = Len(bs) + 1 \/ bs[j] # FILL
                   /\ \A k \in i..(j - 1) : bs[k] = FILL
    IN  end - i

\* the object whose body starts at index i of bs, read up to the STOP opcode;
\* bytes after STOP are ignored, as pickle.loads ignores them
LoadBody(bs, i) ==
    IF i <= Len(bs) /\ bs[i] \in 1..(MaxObj + 1)
    THEN LET p == CountFill(bs, i + 1)
         IN  IF i + 1 + p <= Len(bs) /\ bs[i + 1 + p] = STOP
             THEN [ok |-> TRUE, obj |-> [id |-> bs[i], pad |-> p, ok |-> TRUE]]
             ELSE [ok |-> FALSE, obj |-> NoObj]
    ELSE [ok |-> FALSE, obj |-> NoObj]

\* pickle.loads(bs) of an object: ok = FALSE stands for UnpicklingError/EOFError
LoadsObj(bs) ==
    IF Len(bs) >= 1 /\ bs[1] = PROTO
    THEN LoadBody(bs, 2)
    ELSE [ok |-> FALSE, obj |-> NoObj]

\* err, obj = pickle.loads(bs)
LoadsRes(bs) ==
    IF Len(bs) >= 2 /\ bs[1] = PROTO /\ bs[2] \in {NEWTRUE, NEWFALSE}
    THEN [ok |-> LoadBody(bs, 3).ok, err |-> bs[2] = NEWTRUE,
          obj |-> LoadBody(bs, 3).obj]
    ELSE [ok |-> FALSE, err |-> FALSE, obj |-> NoObj]

----------------------------------------------------------------------------
(* Wait statuses and their classification *)

\* the raw status of a child that exited with code n
ExitStatus(n) == 256 * n
\* the raw status of a child killed by signal sig
SignalStatus(sig, core) == sig + (IF core THEN 128 ELSE 0)

\* os.waitstatus_to_exitcode(status)
waitstatus_to_exitcode(st) ==
    IF st % 128 = 0 THEN (st \div 256) % 256 ELSE -(st % 128)

Raised(kind, o, c) == [kind |-> kind, obj |-> o, code |-> c]
NoOutcome == Raised("none", NoObj, 0)

\* _interrupt with the sign of the first comparison lost
_interrupt_unsigned(exit_code) ==
    IF exit_code = SIGSEGV THEN Raised("SegmentationFault", NoObj, -SIGSEGV)
    ELSE IF exit_code < 0 THEN Raised("SignalInterrupt", NoObj, exit_code)
    ELSE IF exit_code # 0 THEN Raised("Interrupt", NoObj, exit_code)
    ELSE Raised("RuntimeError", NoObj, 0)

\* _interrupt without its last line: status 0 becomes an Interrupt as well
_interrupt_nozero(exit_code) ==
    IF exit_code = -SIGSEGV THEN Raised("SegmentationFault", NoObj, -SIGSEGV)
    ELSE IF exit_code < 0 THEN Raised("SignalInterrupt", NoObj, exit_code)
    ELSE Raised("Interrupt", NoObj, exit_code)

\* _interrupt(exit_code): the exception it returns, or the one it raises
_interrupt(exit_code) ==
    IF exit_code = -SIGSEGV THEN Raised("SegmentationFault", NoObj, -SIGSEGV)
    ELSE IF exit_code < 0 THEN Raised("SignalInterrupt", NoObj, exit_code)
    ELSE IF exit_code # 0 THEN Raised("Interrupt", NoObj, exit_code)
    ELSE Raised("RuntimeError", NoObj, 0)

\* class SignalInterrupt(Interrupt), class SegmentationFault(SignalInterrupt)
IsSignalInterrupt(o) == o.kind \in {"SignalInterrupt", "SegmentationFault"}
IsInterrupt(o) == o.kind = "Interrupt" \/ IsSignalInterrupt(o)

\* os.WCOREDUMP(st): st & 0x80 of the C int st, two's complement when st < 0
WCOREDUMP(st) == (((st % 256) + 256) % 256) \div 128 = 1

\* SignalInterrupt.__str__: the signal the message names (by name and
\* description) and whether the message ends with " (core dumped)"
SignalInterrupt__str__(exit_code) ==
    [sig |-> -exit_code, core |-> WCOREDUMP(exit_code)]

----------------------------------------------------------------------------
(* Inputs: what the decorated function does once it runs in the child *)

Sizes == {4, DefaultReturnBuffer, MaxSize}
Pads == {0, 1, MaxPad - 2, MaxPad - 1, MaxPad}
ExitCodes == {0, 1, 3, 127}

WorkOf(kind, o, n) == [kind |-> kind, obj |-> o, n |-> n]
NoWork == WorkOf("none", NoObj, 0)

\* "return": returns obj; "raise": raises the Exception obj; "base": raises
\* SystemExit(n), which is no Exception; "exit": calls os._exit(n); "fault":
\* reads address 0, as nullptr() of example.py does
WorksOver(pads) ==
    {WorkOf(k, [id |-> i, pad |-> p, ok |-> TRUE], 0) :
        k \in {"return", "raise"}, i \in ObjIds, p \in pads}
    \cup {WorkOf(k, [id |-> 1, pad |-> 0, ok |-> FALSE], 0) :
            k \in {"return", "raise"}}
    \cup {WorkOf("base", NoObj, 3)}
    \cup {WorkOf("exit", NoObj, n) : n \in ExitCodes}
    \cup {WorkOf("fault", NoObj, 0)}

Works == WorksOver(Pads)

\* the child's `data` in the buffer variant: pickle.dumps(res)
BufData(w) == DumpsRes(w.kind = "raise", w.obj)

\* the socket variant's child: the flag byte it sends, and what follows it
SockFlag(w) == IF w.kind = "return" /\ w.obj.ok THEN 0 ELSE 1
SockData(w) ==
    IF w.obj.ok THEN DumpsObj(w.obj) ELSE DumpsObj(PicklingError)

Alive == {"run", "prefix", "payload", "flag", "exit", "escaped"}
ChildAlive(t) == cpc[t] \in Alive

----------------------------------------------------------------------------
Init ==
    /\ pc = [t \in Threads |-> "idle"]
    /\ method = [t \in Threads |-> "none"]
    /\ size = [t \in Threads |-> 0]
    /\ work = [t \in Threads |-> NoWork]
    /\ mem = [t \in Threads |-> <<>>]
    /\ memState = [t \in Threads |-> "none"]
    /\ sock = [t \in Threads |-> <<>>]
    /\ sockState = [t \in Threads |-> "none"]
    /\ res = [t \in Threads |-> <<>>]
    /\ cpc = [t \in Threads |-> "none"]
    /\ sent = [t \in Threads |-> 0]
    /\ status = [t \in Threads |-> 0]
    /\ code = [t \in Threads |-> 0]
    /\ waited = [t \in Threads |-> 0]
    /\ outcome = [t \in Threads |-> NoOutcome]
    /\ gcFrozen = FALSE
    /\ gcBefore = [t \in Threads |-> FALSE]
    /\ regions = 0

----------------------------------------------------------------------------
(* The parent, up to the fork *)

\* wrapper() is entered and the transport is created:
\* mem = SharedMemory(create=True, size=size+size_length), or
\* parent, child = socket.socketpair(); parent.setblocking(False)
StartCall(t, m, sz, w) ==
    /\ pc[t] = "idle"
    /\ m = "buffer" => regions < MaxRegions
    /\ pc' = [pc EXCEPT ![t] = "created"]
    /\ method' = [method EXCEPT ![t] = m]
    /\ size' = [size EXCEPT ![t] = IF m = "buffer" THEN sz ELSE 0]
    /\ work' = [work EXCEPT ![t] = w]
    /\ mem' = [mem EXCEPT ![t] =
                 IF m = "buffer" THEN Zeros(sz + SizeLength(sz)) ELSE <<>>]
    /\ memState' = [memState EXCEPT ![t] =
                      IF m = "buffer" THEN "alloc" ELSE "none"]
    /\ regions' = IF m = "buffer" THEN regions + 1 ELSE regions
    /\ sockState' = [sockState EXCEPT ![t] =
                       IF m = "socket" THEN "open" ELSE "none"]
    /\ gcBefore' = [gcBefore EXCEPT ![t] = gcFrozen]
    /\ UNCHANGED <<sock, res, cpc, sent, status, code, waited, outcome,
                   gcFrozen>>

\* gc.freeze()
GcFreeze(t) ==
    /\ pc[t] = "created"
    /\ pc' = [pc EXCEPT ![t] = "frozen"]
    /\ gcFrozen' = TRUE
    /\ UNCHANGED <<method, size, work, mem, memState, sock, sockState, res,
                   cpc, sent, status, code, waited, outcome, gcBefore,
                   regions>>

\* pid = os.fork() succeeds: the child starts at `if pid == 0:`
Fork(t) ==
    /\ pc[t] = "frozen"
    /\ pc' = [pc EXCEPT ![t] = "wait"]
    /\ cpc' = [cpc EXCEPT ![t] = "run"]
    /\ UNCHANGED <<method, size, work, mem, memState, sock, sockState, res,
                   sent, status, code, waited, outcome, gcFrozen, gcBefore,
                   regions>>

\* os.fork() raises OSError: the statement stands before `try:`, so the
\* exception leaves wrapper() without passing through `finally:`
ForkFails(t) ==
    /\ pc[t] = "frozen"
    /\ pc' = [pc EXCEPT ![t] = "done"]
    /\ outcome' = [outcome EXCEPT ![t] = Raised("OSError", NoObj, 0)]
    /\ UNCHANGED <<method, size, work, mem, memState, sock, sockState, res,
                   cpc, sent, status, code, waited, gcFrozen, gcBefore,
                   regions>>

----------------------------------------------------------------------------
(* The child: the block under `if pid == 0:` *)

ChildEnds(t, st) ==
    /\ cpc' = [cpc EXCEPT ![t] = "zombie"]
    /\ status' = [status EXCEPT ![t] = st]

\* the child runs func(*args, **kwargs) and, in the buffer and socket
\* variants, encodes the outcome.  "escaped": an exception is propagating out
\* of wrapper() in the child, into the code that called the wrapped function
ChildRun(t) ==
    /\ cpc[t] = "run"
    /\ LET w == work[t] IN
       CASE w.kind = "exit" ->
              ChildEnds(t, ExitStatus(w.n))
         [] w.kind = "fault" ->
              \E core \in BOOLEAN : ChildEnds(t, SignalStatus(SIGSEGV, core))
         [] w.kind = "base" ->
              cpc' = [cpc EXCEPT ![t] = "escaped"] /\ UNCHANGED status
         [] OTHER ->
              /\ cpc' = [cpc EXCEPT ![t] =
                   CASE method[t] = "buffer" ->
                          IF w.obj.ok THEN "prefix" ELSE "escaped"
                     [] method[t] = "socket" -> "flag"
                     [] OTHER ->
                          IF w.kind = "return" THEN "exit" ELSE "escaped"]
              /\ UNCHANGED status
    /\ UNCHANGED <<pc, method, size, work, mem, memState, sock, sockState,
                   res, sent, code, waited, outcome, gcFrozen, gcBefore,
                   regions>>

\* mem.buf[:size_length] = len(data).to_bytes(size_length, "little")
ChildWritePrefix(t) ==
    /\ cpc[t] = "prefix"
    /\ LET sl == SizeLength(size[t])
           n == Len(BufData(work[t]))
       IN  IF FitsBytes(n, sl)
           THEN /\ mem' = [mem EXCEPT ![t] = Store(@, 0, ToBytesLE(n, sl))]
                /\ cpc' = [cpc EXCEPT ![t] = "payload"]
           ELSE /\ cpc' = [cpc EXCEPT ![t] = "escaped"]
                /\ UNCHANGED mem
    /\ UNCHANGED <<pc, method, size, work, memState, sock, sockState, res,
                   sent, status, code, waited, outcome, gcFrozen, gcBefore,
                   regions>>

\* mem.buf[size_length:len(data)+size_length] = data: a memoryview slice takes
\* only data of its own length, and raises ValueError otherwise
ChildWritePayload(t) ==
    /\ cpc[t] = "payload"
    /\ method[t] = "buffer"
    /\ LET sl == SizeLength(size[t])
           data == BufData(work[t])
       IN  IF Len(Slice(mem[t], sl, Len(data) + sl)) = Len(data)
           THEN /\ mem' = [mem EXCEPT ![t] = Store(@, sl, data)]
                /\ cpc' = [cpc EXCEPT ![t] = "exit"]
           ELSE /\ cpc' = [cpc EXCEPT ![t] = "escaped"]
                /\ UNCHANGED mem
    /\ UNCHANGED <<pc, method, size, work, memState, sock, sockState, res,
                   sent, status, code, waited, outcome, gcFrozen, gcBefore,
                   regions>>

\* child.send(b"\1") or child.send(b"\0"): blocks while the pair is full
ChildSendFlag(t) ==
    /\ cpc[t] = "flag"
    /\ Len(sock[t]) < SockCap
    /\ sock' = [sock EXCEPT ![t] = Append(@, SockFlag(work[t]))]
    /\ cpc' = [cpc EXCEPT ![t] = "payload"]
    /\ UNCHANGED <<pc, method, size, work, mem, memState, sockState, res,
                   sent, status, code, waited, outcome, gcFrozen, gcBefore,
                   regions>>

\* child.send(pickle.dumps(e)) or child.send(ret): a blocking send queues what
\* the pair has room for and waits for room for the rest; pickle.dumps(e),
\* inside the except block, raises for an error that cannot be encoded
ChildSendPayload(t) ==
    /\ cpc[t] = "payload"
    /\ method[t] = "socket"
    /\ LET w == work[t]
           data == SockData(w)
           k == Min(SockCap - Len(sock[t]), Len(data) - sent[t])
       IN  IF w.kind = "raise" /\ ~w.obj.ok
           THEN /\ cpc' = [cpc EXCEPT ![t] = "escaped"]
                /\ UNCHANGED <<sock, sent>>
           ELSE /\ k > 0
                /\ sock' = [sock EXCEPT ![t] =
                              @ \o SubSeq(data, sent[t] + 1, sent[t] + k)]
                /\ sent' = [sent EXCEPT ![t] = @ + k]
                /\ cpc' = [cpc EXCEPT ![t] =
                             IF sent[t] + k = Len(data) THEN "exit"
                             ELSE "payload"]
    /\ UNCHANGED <<pc, method, size, work, mem, memState, sockState, res,
                   status, code, waited, outcome, gcFrozen, gcBefore, regions>>

\* os._exit(0)
ChildExit(t) ==
    /\ cpc[t] = "exit"
    /\ ChildEnds(t, ExitStatus(0))
    /\ UNCHANGED <<pc, method, size, work, mem, memState, sock, sockState,
                   res, sent, code, waited, outcome, gcFrozen, gcBefore,
                   regions>>

\* the child that left wrapper() with an exception ends as the calling code
\* decides: status 1 when nothing catches the exception, n for SystemExit(n),
\* and any status, 0 included, when the caller catches it and runs on
ChildEscapedEnds(t, n) ==
    /\ cpc[t] = "escaped"
    /\ n \in {0, 1} \cup (IF work[t].kind = "base" THEN {work[t].n} ELSE {})
    /\ ChildEnds(t, ExitStatus(n))
    /\ UNCHANGED <<pc, method, size, work, mem, memState, sock, sockState,
                   res, sent, code, waited, outcome, gcFrozen, gcBefore,
                   regions>>

\* a signal from outside (SIGKILL) ends the child wherever it stands
ChildKilled(t) ==
    /\ ChildAlive(t)
    /\ ChildEnds(t, SignalStatus(SIGKILL, FALSE))
    /\ UNCHANGED <<pc, method, size, work, mem, memState, sock, sockState,
                   res, sent, code, waited, outcome, gcFrozen, gcBefore,
                   regions>>

----------------------------------------------------------------------------
(* The parent, from `try:` on *)

Zombies == {c \in Threads : cpc[c] = "zombie"}

\* os.wait() replaced by a wait that does not block (WNOHANG): with no
\* terminated child it returns at once, with status 0
WaitNoHang(t) ==
    /\ pc[t] = "wait"
    /\ IF Zombies # {}
       THEN \E c \in Zombies :
              /\ cpc' = [cpc EXCEPT ![c] = "reaped"]
              /\ code' = [code EXCEPT ![t] = status[c]]
              /\ waited' = [waited EXCEPT ![t] = c]
       ELSE UNCHANGED <<cpc, code, waited>>
    /\ pc' = [pc EXCEPT ![t] = "read"]
    /\ UNCHANGED <<method, size, work, mem, memState, sock, sockState, res,
                   sent, status, outcome, gcFrozen, gcBefore, regions>>

\* _, code = os.wait(): returns the status of any terminated child of the
\* process, blocks while children run and none has terminated, and raises
\* ChildProcessError when the process has no child left
Wait(t) ==
    /\ pc[t] = "wait"
    /\ IF Zombies # {}
       THEN \E c \in Zombies :
              /\ cpc' = [cpc EXCEPT ![c] = "reaped"]
              /\ code' = [code EXCEPT ![t] = status[c]]
              /\ waited' = [waited EXCEPT ![t] = c]
              /\ pc' = [pc EXCEPT ![t] = "read"]
              /\ UNCHANGED outcome
       ELSE /\ \A c \in Threads : ~ChildAlive(c)
            /\ pc' = [pc EXCEPT ![t] = "finally"]
            /\ outcome' = [outcome EXCEPT ![t] =
                             Raised("ChildProcessError", NoObj, 0)]
            /\ UNCHANGED <<cpc, code, waited>>
    /\ UNCHANGED <<method, size, work, mem, memState, sock, sockState, res,
                   sent, status, gcFrozen, gcBefore, regions>>

\* the loop `res.extend(parent.recv(4096))` until BlockingIOError
RECURSIVE RecvAll(_, _)
RecvAll(queue, acc) ==
    IF Len(queue) = 0 THEN acc
    ELSE RecvAll(SubSeq(queue, Min(RecvChunk, Len(queue)) + 1, Len(queue)),
                 acc \o SubSeq(queue, 1, Min(RecvChunk, Len(queue))))

\* what pickle.loads gave, raised or returned
Decoded(ok, err, o) ==
    IF ~ok THEN Raised("UnpicklingError", NoObj, 0)
    ELSE IF err THEN Raised("raise", o, 0)
    ELSE Raised("return", o, 0)

\* _wrapper_shared_mem: `if mem.buf[0]:` ... `raise _interrupt(exit_code)`
ReadBuffer(buf, sz, exit_code) ==
    LET sl == SizeLength(sz) IN
    IF buf[1] # 0
    THEN LET length == FromBytesLE(Slice(buf, 0, sl))
             r == LoadsRes(Slice(buf, sl, length + sl))
         IN  Decoded(r.ok, r.err, r.obj)
    ELSE _interrupt(exit_code)

\* _wrapper_socket: `if res:` ... `raise _interrupt(exit_code)`
ReadSocket(bytes, exit_code) ==
    IF Len(bytes) # 0
    THEN LET r == LoadsObj(Tail(bytes))
         IN  Decoded(r.ok, bytes[1] # 0, r.obj)
    ELSE _interrupt(exit_code)

\* _wrapper_none testing `exit_code > 0`
ReadNonePositive(exit_code) ==
    IF exit_code > 0 THEN _interrupt(exit_code)
    ELSE Raised("return", NoObj, 0)

\* _wrapper_none: `if exit_code != 0: raise _interrupt(exit_code)`
ReadNone(exit_code) ==
    IF exit_code # 0 THEN _interrupt(exit_code)
    ELSE Raised("return", NoObj, 0)

\* exit_code = os.waitstatus_to_exitcode(code), then the transport is read
Read(t) ==
    /\ pc[t] = "read"
    /\ LET exit_code == waitstatus_to_exitcode(code[t])
           bytes == IF method[t] = "socket" THEN RecvAll(sock[t], <<>>)
                    ELSE <<>>
       IN  /\ res' = [res EXCEPT ![t] = bytes]
           /\ sock' = [sock EXCEPT ![t] = <<>>]
           /\ outcome' = [outcome EXCEPT ![t] =
                CASE method[t] = "buffer" ->
                       ReadBuffer(mem[t], size[t], exit_code)
                  [] method[t] = "socket" -> ReadSocket(bytes, exit_code)
                  [] OTHER -> ReadNone(exit_code)]
    /\ pc' = [pc EXCEPT ![t] = "finally"]
    /\ UNCHANGED <<method, size, work, mem, memState, sockState, cpc, sent,
                   status, code, waited, gcFrozen, gcBefore, regions>>

\* finally: gc.unfreeze(), and mem.unlink() in the buffer variant; the socket
\* variant closes neither socket
Finally(t) ==
    /\ pc[t] = "finally"
    /\ gcFrozen' = FALSE
    /\ memState' = [memState EXCEPT ![t] =
                      IF method[t] = "buffer" THEN "unlinked" ELSE @]
    /\ regions' = IF method[t] = "buffer" THEN regions - 1 ELSE regions
    /\ pc' = [pc EXCEPT ![t] = "done"]
    /\ UNCHANGED <<method, size, work, mem, sock, sockState, res, cpc, sent,
                   status, code, waited, outcome, gcBefore>>

\* the caller has the outcome and wrapper()'s frame, with its locals, is gone
Return(t) ==
    /\ pc[t] = "done"
    /\ cpc[t] \in {"none", "reaped"}
    /\ pc' = [pc EXCEPT ![t] = "idle"]
    /\ method' = [method EXCEPT ![t] = "none"]
    /\ size' = [size EXCEPT ![t] = 0]
    /\ work' = [work EXCEPT ![t] = NoWork]
    /\ mem' = [mem EXCEPT ![t] = <<>>]
    /\ memState' = [memState EXCEPT ![t] = "none"]
    /\ sock' = [sock EXCEPT ![t] = <<>>]
    /\ sockState' = [sockState EXCEPT ![t] = "none"]
    /\ res' = [res EXCEPT ![t] = <<>>]
    /\ cpc' = [cpc EXCEPT ![t] = "none"]
    /\ sent' = [sent EXCEPT ![t] = 0]
    /\ status' = [status EXCEPT ![t] = 0]
    /\ code' = [code EXCEPT ![t] = 0]
    /\ waited' = [waited EXCEPT ![t] = 0]
    /\ outcome' = [outcome EXCEPT ![t] = NoOutcome]
    /\ gcBefore' = [gcBefore EXCEPT ![t] = FALSE]
    /\ UNCHANGED <<gcFrozen, regions>>

----------------------------------------------------------------------------
(* Specifications *)

\* every step of the call of thread t and of its child
Step(t, sizes, works) ==
    \/ \E m \in Methods, sz \in sizes, w \in works : StartCall(t, m, sz, w)
    \/ GcFreeze(t)
    \/ Fork(t)
    \/ ForkFails(t)
    \/ ChildRun(t)
    \/ ChildWritePrefix(t)
    \/ ChildWritePayload(t)
    \/ ChildSendFlag(t)
    \/ ChildSendPayload(t)
    \/ ChildExit(t)
    \/ \E n \in ExitCodes : ChildEscapedEnds(t, n)
    \/ ChildKilled(t)
    \/ Wait(t)
    \/ Read(t)
    \/ Finally(t)

\* one thread calls wrapped functions, one call after the other
Next == Step(1, Sizes, Works) \/ Return(1)
Spec == Init /\ [][Next]_vars

\* every thread calls a wrapped function once, the calls overlapping
ConcSizes == {4}
ConcWorks ==
    {WorkOf(k, [id |-> 1, pad |-> 0, ok |-> TRUE], 0) : k \in {"return", "raise"}}
    \cup {WorkOf("fault", NoObj, 0)}
NextConc == \E t \in Threads : Step(t, ConcSizes, ConcWorks)
SpecConc == Init /\ [][NextConc]_vars

----------------------------------------------------------------------------
(* Properties *)

Called(t) == pc[t] = "done"
\* the call of thread t has ended and its child ran to its end unsignalled
ChildExited(t) ==
    Called(t) /\ cpc[t] = "reaped" /\ \E n \in 0..255 : status[t] = ExitStatus(n)
\* the encoded outcome fits the transport's capacity (the socket has none)
Fits(t) == method[t] = "buffer" => Len(BufData(work[t])) <= size[t]
\* the child of thread t wrote no byte to the transport
NothingWritten(t) ==
    /\ method[t] = "buffer" => mem[t] = Zeros(Len(mem[t]))
    /\ method[t] = "socket" => res[t] = <<>> /\ sock[t] = <<>>

\* C1: in the buffer and socket variants, a call whose function returns an
\* encodable value v, the encoding no longer than the buffer's capacity,
\* returns a value equal to v.
C1_RoundTrip ==
    \A t \in Threads :
        ( /\ ChildExited(t)
          /\ method[t] \in {"buffer", "socket"}
          /\ work[t].kind = "return" /\ work[t].obj.ok
          /\ Fits(t) )
        => outcome[t] = Raised("return", work[t].obj, 0)

\* C2: in the buffer and socket variants, a call whose function raises an
\* encodable Exception e, the encoding no longer than the buffer's capacity,
\* raises an error equal to e in the parent.
C2_ErrorRematerialized ==
    \A t \in Threads :
        ( /\ ChildExited(t)
          /\ method[t] \in {"buffer", "socket"}
          /\ work[t].kind = "raise" /\ work[t].obj.ok
          /\ Fits(t) )
        => outcome[t] = Raised("raise", work[t].obj, 0)

\* C3: in every variant, when the child ended without writing a byte to the
\* transport: killed by signal S, the call raises a SignalInterrupt whose
\* exit_code is -S, a SegmentationFault exactly when S is SIGSEGV; exited with
\* code N, 0 < N < 128, the call raises an Interrupt with exit_code N that is
\* no SignalInterrupt.
C3_ExitClassification ==
    \A t \in Threads :
        (Called(t) /\ cpc[t] = "reaped" /\ NothingWritten(t)) =>
            /\ \A S \in {SIGSEGV, SIGKILL}, core \in BOOLEAN :
                 status[t] = SignalStatus(S, core) =>
                     /\ IsSignalInterrupt(outcome[t])
                     /\ outcome[t].code = -S
                     /\ outcome[t].kind = "SegmentationFault" <=> S = SIGSEGV
            /\ \A N \in 1..127 :
                 status[t] = ExitStatus(N) =>
                     outcome[t] = Raised("Interrupt", NoObj, N)

\* a buffer call whose function read address 0, the child dumping core, has
\* raised SegmentationFault
C3_Witness ==
    \E t \in Threads :
        /\ Called(t) /\ cpc[t] = "reaped" /\ NothingWritten(t)
        /\ method[t] = "buffer"
        /\ work[t].kind = "fault"
        /\ status[t] = SignalStatus(SIGSEGV, TRUE)
        /\ outcome[t] = Raised("SegmentationFault", NoObj, -SIGSEGV)

\* C4: in the buffer variant, a call whose encoded outcome is longer than the
\* capacity fails with an explicit overflow error.
C4_CapacityLaw ==
    \A t \in Threads :
        ( /\ ChildExited(t)
          /\ method[t] = "buffer"
          /\ work[t].kind \in {"return", "raise"} /\ work[t].obj.ok
          /\ Len(BufData(work[t])) > size[t] )
        => outcome[t].kind = "TransportOverflow"

\* C5: in the buffer and socket variants, a call whose child did not end with
\* exit status 0 raises the Interrupt of that status and takes nothing from
\* the transport.
C5_PayloadOnlyAfterCleanExit ==
    \A t \in Threads :
        ( /\ Called(t) /\ cpc[t] = "reaped"
          /\ method[t] \in {"buffer", "socket"}
          /\ status[t] # ExitStatus(0) )
        => /\ IsInterrupt(outcome[t])
           /\ outcome[t].code = waitstatus_to_exitcode(status[t])

\* C6: when a call has ended its shared region has been unlinked, its sockets
\* do not outlive the call, and no region exists once no call is running.
C6_TransportReleased ==
    /\ \A t \in Threads : Called(t) => memState[t] # "alloc"
    /\ \A t \in Threads : pc[t] = "idle" => sockState[t] = "none"
    /\ (\A t \in Threads : pc[t] = "idle") => regions = 0

\* C7: when a call has ended, gc is frozen exactly if it was frozen when the
\* call began.
C7_PauseRestored ==
    \A t \in Threads : Called(t) => gcFrozen = gcBefore[t]

\* C8: the child never leaves wrapper(): no exception propagates from it into
\* the code that called the wrapped function.
C8_ChildConfined ==
    \A t \in Threads : cpc[t] # "escaped"

\* C9: the status a call got from os.wait() is the status of the child it
\* forked itself, and that child has been reaped when the call ends.
C9_OwnChildWait ==
    \A t \in Threads :
        /\ (pc[t] \in {"read", "finally", "done"} /\ cpc[t] # "none")
               => waited[t] = t
        /\ (Called(t) /\ cpc[t] # "none") => cpc[t] = "reaped"

\* C10: between a call's gc.freeze() and its os.fork() gc stays frozen,
\* whatever the other calls do.
C10_PausedAtSpawn ==
    \A t \in Threads : pc[t] = "frozen" => gcFrozen

C12_CoreDumpReported ==
    \A t \in Threads :
        \A S \in {SIGSEGV, SIGKILL}, core \in BOOLEAN :
            ( /\ Called(t) /\ cpc[t] = "reaped"
              /\ status[t] = SignalStatus(S, core)
              /\ IsSignalInterrupt(outcome[t]) )
            => /\ SignalInterrupt__str__(outcome[t].code).sig = S
               /\ SignalInterrupt__str__(outcome[t].code).core = core

\* C13: a call of the "none" variant has no shared region and no socket; when
\* its child ended with exit status 0 it returns None, whatever the function
\* did, and otherwise it raises the Interrupt of the child's status.
C13_Discard ==
    \A t \in Threads :
        method[t] = "none" =>
            /\ memState[t] = "none" /\ sockState[t] = "none"
            /\ mem[t] = <<>> /\ sock[t] = <<>> /\ res[t] = <<>>
            /\ (Called(t) /\ cpc[t] = "reaped") =>
                 /\ status[t] = ExitStatus(0)
                        => outcome[t] = Raised("return", NoObj, 0)
                 /\ \A N \in 1..255 :
                      status[t] = ExitStatus(N)
                        => outcome[t] = Raised("Interrupt", NoObj, N)
                 /\ \A S \in {SIGSEGV, SIGKILL}, core \in BOOLEAN :
                      status[t] = SignalStatus(S, core)
                        => /\ IsSignalInterrupt(outcome[t])
                           /\ outcome[t].code = -S

\* a "none" call whose function returned an object has returned None, and
\* before it one whose child was killed raised SignalInterrupt
C13_Witness ==
    \E t \in Threads :
        /\ Called(t) /\ cpc[t] = "reaped" /\ method[t] = "none"
        /\ work[t].kind = "return" /\ work[t].obj.id = 1
        /\ status[t] = ExitStatus(0)
        /\ outcome[t] = Raised("return", NoObj, 0)

\* C14: in the socket variant the child is never blocked in send, the pair
\* full and payload left to send, while the parent is blocked in os.wait().
C14_NoDeadlock ==
    \A t \in Threads :
        ~ ( /\ method[t] = "socket"
            /\ pc[t] = "wait"
            /\ cpc[t] = "payload"
            /\ sent[t] < Len(SockData(work[t]))
            /\ Len(sock[t]) = SockCap )

\* C15: in the buffer and socket variants, a call whose child ended with exit
\* status 0 and wrote nothing raises RuntimeError, and its finally block has
\* run: gc is not frozen and the shared region is unlinked.
C15_CleanExitNoPayload ==
    \A t \in Threads :
        ( /\ Called(t) /\ cpc[t] = "reaped"
          /\ method[t] \in {"buffer", "socket"}
          /\ status[t] = ExitStatus(0)
          /\ NothingWritten(t) )
        => /\ outcome[t] = Raised("RuntimeError", NoObj, 0)
           /\ ~gcFrozen
           /\ method[t] = "buffer" => memState[t] = "unlinked"

\* a buffer call whose function called os._exit(0) has raised RuntimeError
C15_Witness ==
    \E t \in Threads :
        /\ Called(t) /\ cpc[t] = "reaped" /\ method[t] = "buffer"
        /\ work[t] = WorkOf("exit", NoObj, 0)
        /\ NothingWritten(t)
        /\ outcome[t].kind = "RuntimeError"
        /\ memState[t] = "unlinked"

\* C16: the region of a buffer call of capacity C has C + prefix_width bytes;
\* every length up to C fits prefix_width bytes; and once the child has
\* written an outcome of L bytes, the bytes at offsets prefix_width ..
\* prefix_width + L - 1 are the outcome and the prefix, read as the parent
\* reads it, is L.
C16_PrefixFraming ==
    \A t \in Threads :
        (method[t] = "buffer" /\ pc[t] # "idle") =>
            LET sl == SizeLength(size[t])
                data == BufData(work[t])
            IN  /\ Len(mem[t]) = size[t] + sl
                /\ 8 * sl >= BitLength(size[t]) /\ 8 * (sl - 1) < BitLength(size[t])
                /\ \A L \in 1..size[t] : FitsBytes(L, sl)
                /\ cpc[t] = "exit" =>
                     /\ Len(data) <= size[t]
                     /\ SubSeq(mem[t], sl + 1, sl + Len(data)) = data
                     /\ FromBytesLE(Slice(mem[t], 0, sl)) = Len(data)

\* the child of a buffer call of capacity MaxSize, whose prefix takes two
\* bytes, has written prefix and payload
C16_Witness ==
    \E t \in Threads :
        /\ method[t] = "buffer" /\ cpc[t] = "exit"
        /\ size[t] = MaxSize /\ SizeLength(size[t]) = 2
        /\ Len(BufData(work[t])) = MaxPad + 2

====
